---- MODULE Spec2Model ----
(***************************************************************************)
(* Model of the measurement-analysis reporting pipeline (Kugeleis/exan):   *)
(* run_analysis / process_columns (src/src/main.py), the statistical test  *)
(* engine (src/utils/analyses.py), the relevance decorator                 *)
(* (src/utils/relevance_decorator.py) and the significance ranking of the  *)
(* report generators (src/src/utils/reporting.py).                         *)
(*                                                                         *)
(* Numbers.  Python floats are modelled in fixed point:                    *)
(*   - measurement values, limits and means are integers in units of       *)
(*     1/MeanScale (a group mean of at most 6 integer values is exact);    *)
(*   - p-values are integers in thousandths (0.05 is 50);                  *)
(*   - the relevance threshold is an integer in percent (0.2 is 20);       *)
(*   - NaN is the integer -1 (every real number of the model is >= 0 where *)
(*     a NaN can occur) and every comparison with it is false, as in IEEE; *)
(*   - Python's None is the empty tuple, a present optional value v is the *)
(*     one-element tuple <<v>>.                                            *)
(* A Python dict is a function with a set of strings as domain; an ordered *)
(* dict (the plots mapping) is a sequence of <<name, figure>> pairs.       *)
(***************************************************************************)
EXTENDS Integers, Sequences, FiniteSets, TLC

VARIABLES
    df,             \* the DataFrame: a sequence of rows
    all_limits,     \* {"Lower_Limit": {column: value}, ...} from the CSV
    config,         \* the configuration (analyses, plots, output, report)
    pc,             \* position in run_analysis
    col_idx,        \* index in value_cols of the column being processed
    an_idx,         \* index in analyses_to_run of the next analysis
    result,         \* process_columns' local `result` (last test result)
    results,        \* list[AnalysisResult]
    plots,          \* dict[str, Figure], insertion ordered
    report_formats, \* generate_report's formats still to generate
    generators,     \* the generators built so far: format and ranked plots
    output_dir,     \* whether the output directory exists
    files,          \* report files: name -> [status, rows, anchors]
    exception,      \* the exception that ended the run, or "None"
    plot_idx,       \* PDFReportGenerator.generate: index of the plot being added
    temp_files,     \* the temporary image files that exist (by plot index)
    w_limits,       \* direct call of the decorator: limits_dict
    w_threshold,    \* direct call of the decorator: threshold
    w_in,           \* direct call of the decorator: the wrapped test's result
    w_out,          \* direct call of the decorator: the wrapper's return value
    w_pc,           \* direct call of the decorator: "idle" | "call" | "returned"
    t_cls,          \* direct call of a test: the analysis class
    t_col,          \* direct call of a test: value_col
    t_out,          \* direct call of a test: the returned result
    t_pc            \* direct call of a test: "idle" | "call" | "returned" | "raised"

pipeline_vars == <<df, all_limits, config, pc, col_idx, an_idx, result, results,
                   plots, report_formats, generators, output_dir, files, exception,
                   plot_idx, temp_files>>
pdf_vars == <<plot_idx, temp_files>>
wrapper_vars == <<w_limits, w_threshold, w_in, w_out, w_pc>>
test_vars == <<t_cls, t_col, t_out, t_pc>>
vars == <<pipeline_vars, wrapper_vars, test_vars>>

-----------------------------------------------------------------------------
(* Bounds of the model *)

\* Largest number of data rows of the DataFrame.
MaxRows == 3
\* Largest mean value (in whole units) handed to the decorator directly.
MaxMean == 2

-----------------------------------------------------------------------------
(* Numbers *)

MeanScale == 3 * 4 * 5
NaN == 0 - 1
Inf == 1000 * 1000
None == <<>>
Some(v) == <<v>>

IsNaN(x) == x = NaN
\* IEEE comparisons: false as soon as one side is NaN.
Lt(a, b) == ~IsNaN(a) /\ ~IsNaN(b) /\ a < b
Gt(a, b) == Lt(b, a)
Ge(a, b) == ~IsNaN(a) /\ ~IsNaN(b) /\ a >= b
Sub(a, b) == IF IsNaN(a) \/ IsNaN(b) THEN NaN ELSE a - b

\* Python's builtin max(list): keeps the first element unless a later one
\* compares greater.
RECURSIVE PyMaxFrom(_, _, _)
PyMaxFrom(s, i, m) ==
    IF i > Len(s) THEN m
    ELSE PyMaxFrom(s, i + 1, IF Gt(s[i], m) THEN s[i] ELSE m)
PyMax(s) == PyMaxFrom(s, 2, s[1])

\* Python's builtin min(list).
RECURSIVE PyMinFrom(_, _, _)
PyMinFrom(s, i, m) ==
    IF i > Len(s) THEN m
    ELSE PyMinFrom(s, i + 1, IF Lt(s[i], m) THEN s[i] ELSE m)
PyMin(s) == PyMinFrom(s, 2, s[1])

\* f"{x:.2f}" of a fixed-point number: the value in hundredths, rounded.
Fmt2(x) == IF IsNaN(x) THEN NaN ELSE (2 * 100 * x + MeanScale) \div (2 * MeanScale)

\* dict.get(key) -> None when the key is absent.
Get(d, k) == IF k \in DOMAIN d THEN Some(d[k]) ELSE None

-----------------------------------------------------------------------------
(* The DataFrame *)

GroupCol == "Group"
\* The measurement columns of the data file, in file order.
DataColumns == <<"Col_A", "ColB">>
\* A missing group label (an empty cell, read as NaN by read_csv).
MissingGroup == "NaN"
GroupLabels == {"A", "B", "C"}

\* The measurement values of the rows of the data file, by row number.
ColumnValues ==
    "Col_A" :> <<1, 3, 2, 4, 2, 3>> @@ "ColB" :> <<2, 2, 5, 1, 3, 4>>

SeqsUpTo(S, n) == UNION {[1..k -> S] : k \in 0..n}

\* Group labels are named in order of first appearance (A, then B, then C).
InOrderOfAppearance(gs) ==
    \A i \in DOMAIN gs :
        /\ gs[i] = "B" => \E j \in 1..(i - 1) : gs[j] = "A"
        /\ gs[i] = "C" => \E j \in 1..(i - 1) : gs[j] = "B"

GroupColumns ==
    {gs \in SeqsUpTo(GroupLabels \cup {MissingGroup}, MaxRows) : InOrderOfAppearance(gs)}

\* The rows whose ColB cell is empty in the data file (read as NaN): none, or
\* the last row.
EmptyCells(gs) == IF Len(gs) = 0 THEN {{}} ELSE {{}, {Len(gs)}}

MakeDf(gs, empty) ==
    [i \in 1..Len(gs) |->
        [Group |-> gs[i],
         Col_A |-> ColumnValues["Col_A"][i] * MeanScale,
         ColB  |-> IF i \in empty THEN NaN ELSE ColumnValues["ColB"][i] * MeanScale]]

\* The DataFrames read_csv can return for the data files of the model.
DataFrames == UNION {{MakeDf(gs, empty) : empty \in EmptyCells(gs)} : gs \in GroupColumns}

\* df[group_col].unique(): distinct values in order of first appearance;
\* a missing label (NaN) is one of them.
RECURSIVE UniqueFrom(_, _, _)
UniqueFrom(d, i, acc) ==
    IF i > Len(d) THEN acc
    ELSE UniqueFrom(d, i + 1,
            IF \E j \in DOMAIN acc : acc[j] = d[i][GroupCol]
            THEN acc ELSE Append(acc, d[i][GroupCol]))
Unique(d) == UniqueFrom(d, 1, <<>>)

\* df[group_col].nunique(): number of distinct values, missing ones dropped.
NUnique(d) == Cardinality({d[i][GroupCol] : i \in DOMAIN d} \ {MissingGroup})

\* df[df[group_col] == g][value_col]: NaN == NaN is false, so the sample of a
\* missing label is empty.
RECURSIVE SampleFrom(_, _, _, _, _)
SampleFrom(d, g, c, i, acc) ==
    IF i > Len(d) THEN acc
    ELSE SampleFrom(d, g, c, i + 1,
            IF g # MissingGroup /\ d[i][GroupCol] = g THEN Append(acc, d[i][c]) ELSE acc)
Sample(d, g, c) == SampleFrom(d, g, c, 1, <<>>)

RECURSIVE SumSeq(_)
SumSeq(s) == IF s = <<>> THEN 0 ELSE s[1] + SumSeq(Tail(s))

\* float(np.mean(sample)): np.mean of a Series is Series.mean(), which skips
\* NaN values; NaN for a sample without values.
Mean(s) ==
    LET present == SelectSeq(s, LAMBDA x : ~IsNaN(x)) IN
    IF present = <<>> THEN NaN ELSE SumSeq(present) \div Len(present)

\* df.select_dtypes(include=['number']) without the group column: a data
\* file without rows has object columns only.
ValueCols(d) == IF Len(d) = 0 THEN <<>> ELSE DataColumns

-----------------------------------------------------------------------------
(* The statistical test engine: src/utils/analyses.py *)

\* The fixed significance threshold, 0.05, in thousandths.
Alpha == 50

\* The p-values scipy can return for well-formed samples (0.001 and 0.05).
PValues == {1, 50}
\* The test statistic scipy returns with a real p-value (2.5, in tenths).
Statistics == {25}

\* What scipy.stats returns for a list of samples: NaN for an empty sample
\* and for a sample holding a NaN (nan_policy = 'propagate'), and otherwise a
\* p-value it computes (or NaN for degenerate samples, e.g. a single
\* observation per group).
ScipyOutcomes(samples) ==
    IF \E i \in DOMAIN samples : samples[i] = <<>> \/ \E j \in DOMAIN samples[i] : IsNaN(samples[i][j])
    THEN {[statistic |-> NaN, pvalue |-> NaN]}
    ELSE {[statistic |-> NaN, pvalue |-> NaN]}
         \cup {[statistic |-> st, pvalue |-> p] : st \in Statistics, p \in PValues}

\* A variant of Significant with an inclusive threshold.
Significant_Inclusive(pvalue) == pvalue # 0 - 1 /\ pvalue <= 50

\* bool(result.pvalue < 0.05)
Significant(pvalue) == Lt(pvalue, Alpha)

AnovaSamples(d, value_col) ==
    LET groups == Unique(d) IN [i \in 1..Len(groups) |-> Sample(d, groups[i], value_col)]

\* AnovaAnalysis.analyze; sc is what stats.f_oneway returned.
AnovaAnalyze(d, value_col, sc) ==
    LET samples == AnovaSamples(d, value_col) IN
    [test |-> "ANOVA",
     F_statistic |-> sc.statistic,
     p_value |-> sc.pvalue,
     significant |-> Significant(sc.pvalue),
     mean_values |-> [i \in 1..Len(samples) |-> Mean(samples[i])]]

TwoSamples(d, value_col) ==
    LET groups == Unique(d) IN
    <<Sample(d, groups[1], value_col), Sample(d, groups[2], value_col)>>

\* A variant of TTestError that also names the test.
TTestError_WithTest == [error |-> "T-Test requires exactly two groups.", test |-> "T-Test"]

TTestError == [error |-> "T-Test requires exactly two groups."]

\* TTestAnalysis.analyze; sc is what stats.ttest_ind returned.
TTestAnalyze(d, value_col, sc) ==
    IF Len(Unique(d)) # 2 THEN TTestError
    ELSE LET s == TwoSamples(d, value_col) IN
         [test |-> "T-Test",
          t_statistic |-> sc.statistic,
          p_value |-> sc.pvalue,
          significant |-> Significant(sc.pvalue),
          mean_values |-> <<Mean(s[1]), Mean(s[2])>>]

MannWhitneyError == [error |-> "Mann-Whitney U-Test requires exactly two groups."]

\* MannWhitneyAnalysis.analyze; sc is what stats.mannwhitneyu returned.
MannWhitneyAnalyze(d, value_col, sc) ==
    IF Len(Unique(d)) # 2 THEN MannWhitneyError
    ELSE LET s == TwoSamples(d, value_col) IN
         [test |-> "Mann-Whitney U-Test",
          U_statistic |-> sc.statistic,
          p_value |-> sc.pvalue,
          significant |-> Significant(sc.pvalue),
          mean_values |-> <<Mean(s[1]), Mean(s[2])>>]

\* The samples the test of class cls hands to scipy (none on the error path).
TestSamples(cls, d, value_col) ==
    IF cls = "AnovaAnalysis" THEN AnovaSamples(d, value_col)
    ELSE IF Len(Unique(d)) # 2 THEN <<>>
    ELSE TwoSamples(d, value_col)

\* analysis_cls().analyze(df, group_col, value_col)
Analyze(cls, d, value_col, sc) ==
    CASE cls = "AnovaAnalysis" -> AnovaAnalyze(d, value_col, sc)
      [] cls = "TTestAnalysis" -> TTestAnalyze(d, value_col, sc)
      [] cls = "MannWhitneyAnalysis" -> MannWhitneyAnalyze(d, value_col, sc)

-----------------------------------------------------------------------------
(* The relevance decorator: src/utils/relevance_decorator.py *)

\* A variant of SetItem that binds a fresh dict holding only the new key.
SetItem_Fresh(d, k, v) == k :> v

\* result[key] = value
SetItem(d, k, v) == [x \in DOMAIN d \cup {k} |-> IF x = k THEN v ELSE d[x]]

\* A variant of LimitGet that takes a missing limit as 0.
LimitGet_DefaultZero(limits_dict, k) ==
    IF k \in DOMAIN limits_dict /\ limits_dict[k] # None THEN limits_dict[k] ELSE Some(0)

\* limits_dict.get(key): None for an absent key and for a stored None.
LimitGet(limits_dict, k) == IF k \in DOMAIN limits_dict THEN limits_dict[k] ELSE None

MissingLimitMessage == <<"Missing lower or upper limit - cannot assess relevance.">>
ZeroRangeMessage == <<"Zero range between limits - cannot assess relevance.">>
NotSignificantMessage == <<"No statistically significant difference.">>
\* f"Significant AND relevant (Diff={max_diff:.2f}, threshold={threshold*100:.1f}%)."
RelevantMessage(max_diff, threshold) ==
    <<"Significant AND relevant (Diff=, threshold=%).", Fmt2(max_diff), threshold * 10>>
\* f"Significant but NOT relevant (Diff={max_diff:.2f} < {threshold*100:.1f}%)."
NotRelevantMessage(max_diff, threshold) ==
    <<"Significant but NOT relevant (Diff= < %).", Fmt2(max_diff), threshold * 10>>

\* max(result["mean_values"]) - min(result["mean_values"])
MaxDiff(mean_values) == Sub(PyMax(mean_values), PyMin(mean_values))

\* lower_limit is None or upper_limit is None
LimitMissing(lower_limit, upper_limit) == lower_limit = None \/ upper_limit = None

\* A variant of ZeroRange without the zero-range check.
ZeroRange_Never(range_val) == FALSE

\* range_val == 0
ZeroRange(range_val) == range_val = 0

\* A variant of Relevance with an exclusive boundary.
Relevance_Strict(max_diff, threshold, range_val) ==
    ~IsNaN(max_diff) /\ 100 * max_diff > threshold * range_val

\* max_diff >= (threshold * range_val), threshold in percent
Relevance(max_diff, threshold, range_val) ==
    ~IsNaN(max_diff) /\ 100 * max_diff >= threshold * range_val

\* result.get("significant", False), taken as a truth value
IsSignificant(res) == "significant" \in DOMAIN res /\ res["significant"]

\* A variant of Message that looks at relevance before significance.
Message_RelevanceFirst(res, relevance, max_diff, threshold) ==
    IF relevance THEN RelevantMessage(max_diff, threshold)
    ELSE IF "significant" \in DOMAIN res /\ res["significant"]
    THEN NotRelevantMessage(max_diff, threshold)
    ELSE NotSignificantMessage

\* The message chosen once relevance is computed.
Message(res, relevance, max_diff, threshold) ==
    IF ~IsSignificant(res) THEN NotSignificantMessage
    ELSE IF relevance THEN RelevantMessage(max_diff, threshold)
    ELSE NotRelevantMessage(max_diff, threshold)

\* The wrapper raises (max() of an empty list) instead of returning.
WrapperRaises(res, limits_dict, threshold) ==
    /\ "mean_values" \in DOMAIN res
    /\ ~LimitMissing(LimitGet(limits_dict, "lower_limit"), LimitGet(limits_dict, "upper_limit"))
    /\ ~ZeroRange(LimitGet(limits_dict, "upper_limit")[1] - LimitGet(limits_dict, "lower_limit")[1])
    /\ res["mean_values"] = <<>>

\* relevance_decorator(limits_dict, threshold)(analyze_func): what the wrapper
\* returns when analyze_func returned res.
Wrapper(res, limits_dict, threshold) ==
    IF "mean_values" \in DOMAIN res
    THEN LET lower_limit == LimitGet(limits_dict, "lower_limit")
             upper_limit == LimitGet(limits_dict, "upper_limit")
         IN  IF LimitMissing(lower_limit, upper_limit)
             THEN SetItem(SetItem(res, "relevance", FALSE), "message", MissingLimitMessage)
             ELSE LET range_val == upper_limit[1] - lower_limit[1] IN
                  IF ZeroRange(range_val)
                  THEN SetItem(SetItem(res, "relevance", FALSE), "message", ZeroRangeMessage)
                  ELSE LET max_diff == MaxDiff(res["mean_values"])
                           relevance == Relevance(max_diff, threshold, range_val)
                       IN  SetItem(SetItem(res, "relevance", relevance), "message",
                                   Message(res, relevance, max_diff, threshold))
    ELSE res

-----------------------------------------------------------------------------
(* Strings and the ordered plots mapping *)

\* The characters of the names the model uses.
Chars ==
    "Col_A" :> <<"C", "o", "l", "_", "A">>
    @@ "Col" :> <<"C", "o", "l">>
    @@ "N/A" :> <<"N", "/", "A">>
    @@ "ColB" :> <<"C", "o", "l", "B">>
    @@ "Significance Plot" :> <<"S", "i", "g", "n", "i", "f", "i", "c", "a", "n", "c", "e",
                                " ", "P", "l", "o", "t">>

SetMax(S) == CHOOSE x \in S : \A y \in S : y <= x

\* name.split('_')[-1]
SplitLast(cs) ==
    LET seps == {i \in DOMAIN cs : cs[i] = "_"} IN
    IF seps = {} THEN cs ELSE SubSeq(cs, SetMax(seps) + 1, Len(cs))

\* needle in hay (substring)
Contains(hay, needle) ==
    \E off \in 0..(Len(hay) - Len(needle)) :
        \A i \in DOMAIN needle : hay[off + i] = needle[i]

\* The position of key name in an ordered dict, 0 when absent.
DictIndex(dict, name) ==
    IF \E i \in DOMAIN dict : dict[i][1] = name
    THEN CHOOSE i \in DOMAIN dict : dict[i][1] = name ELSE 0

\* dict[name] = value: replaces in place, or appends a new key.
DictSet(dict, name, value) ==
    IF DictIndex(dict, name) = 0 THEN Append(dict, <<name, value>>)
    ELSE [dict EXCEPT ![DictIndex(dict, name)] = <<name, value>>]

DictKeys(dict) == [i \in DOMAIN dict |-> dict[i][1]]

-----------------------------------------------------------------------------
(* sorted(): CPython's list sort for fewer than 64 items *)
(* (count_run, then binary insertion), on <<key, item>> pairs, comparing    *)
(* keys with < only.                                                        *)

RECURSIVE RunEnd(_, _, _)
RunEnd(ks, i, descending) ==
    IF i >= Len(ks) THEN Len(ks)
    ELSE IF Lt(ks[i + 1][1], ks[i][1]) = descending THEN RunEnd(ks, i + 1, descending)
    ELSE i

\* Length of the run at the start of ks.
CountRun(ks) ==
    IF Len(ks) < 2 THEN Len(ks) ELSE RunEnd(ks, 2, Lt(ks[2][1], ks[1][1]))

ReverseSeq(s) == [i \in 1..Len(s) |-> s[Len(s) + 1 - i]]

\* ks with its leading run made ascending.
WithRun(ks) ==
    LET n == CountRun(ks) IN
    IF Len(ks) >= 2 /\ Lt(ks[2][1], ks[1][1])
    THEN ReverseSeq(SubSeq(ks, 1, n)) \o SubSeq(ks, n + 1, Len(ks))
    ELSE ks

\* Insertion point (0-based) of pivot in the sorted prefix ks[1..r].
RECURSIVE BinarySearch(_, _, _, _)
BinarySearch(ks, pivot, l, r) ==
    IF l >= r THEN l
    ELSE LET p == l + ((r - l) \div 2) IN
         IF Lt(pivot, ks[p + 1][1]) THEN BinarySearch(ks, pivot, l, p)
         ELSE BinarySearch(ks, pivot, p + 1, r)

\* binarysort: ks[1..start] is sorted, insert the items after it one by one.
RECURSIVE BinarySort(_, _)
BinarySort(ks, start) ==
    IF start >= Len(ks) THEN ks
    ELSE LET pivot == ks[start + 1]
             l == BinarySearch(ks, pivot[1], 0, start)
         IN  BinarySort(SubSeq(ks, 1, l) \o <<pivot>> \o SubSeq(ks, l + 1, start)
                            \o SubSeq(ks, start + 2, Len(ks)),
                        start + 1)

PySorted(ks) == IF Len(ks) < 2 THEN ks ELSE BinarySort(WithRun(ks), CountRun(ks))

-----------------------------------------------------------------------------
(* Significance ranking: ReportGenerator._sort_plots_by_significance *)

\* The results that enter the p_values dict.
Ranked(rs) == {i \in DOMAIN rs : "column" \in DOMAIN rs[i] /\ "p_value" \in DOMAIN rs[i]}

\* {result['column']: result['p_value'] for result in results if ...}: a later
\* result of the same column overwrites an earlier one.
PValueDict(rs) ==
    [c \in {rs[i]["column"] : i \in Ranked(rs)} |->
        rs[SetMax({i \in Ranked(rs) : rs[i]["column"] = c})]["p_value"]]

\* p_values.get(name.split('_')[-1], float('inf'))
SortKey(name, p_values) ==
    IF \E c \in DOMAIN p_values : Chars[c] = SplitLast(Chars[name])
    THEN p_values[CHOOSE c \in DOMAIN p_values : Chars[c] = SplitLast(Chars[name])]
    ELSE Inf

\* A variant of SortPlotsBySignificance that keeps only the plots whose name
\* matches a result.
SortPlotsBySignificance_DropUnmatched(ps, rs) ==
    SelectSeq(ps, LAMBDA item : SortKey(item[1], PValueDict(rs)) # Inf)

\* The generator's plots after construction.
SortPlotsBySignificance(ps, rs) ==
    IF rs = <<>> THEN ps
    ELSE LET keyed == [i \in DOMAIN ps |-> <<SortKey(ps[i][1], PValueDict(rs)), ps[i]>>]
             sorted == PySorted(keyed)
         IN  [i \in DOMAIN sorted |-> sorted[i][2]]

-----------------------------------------------------------------------------
(* The inputs of a run *)

\* "# limit:" lines of the data file, one value per measurement column.
LowerLimits == "Col_A" :> 2 * MeanScale @@ "ColB" :> 0
UpperLimits == "Col_A" :> 2 * MeanScale @@ "ColB" :> 4 * MeanScale
Targets == "Col_A" :> 2 * MeanScale @@ "ColB" :> 2 * MeanScale

AllLimitsChoices ==
    { <<>>,
      "Lower_Limit" :> LowerLimits,
      "Upper_Limit" :> UpperLimits,
      "Lower_Limit" :> LowerLimits @@ "Target" :> Targets,
      "Lower_Limit" :> LowerLimits @@ "Upper_Limit" :> UpperLimits @@ "Target" :> Targets }

\* The `analyses` section of the configuration.
AnalysesChoices ==
    { <<>>,
      <<[name |-> "TTestAnalysis", relevance |-> TRUE, relevance_threshold |-> 50]>>,
      <<[name |-> "TTestAnalysis", relevance |-> FALSE],
        [name |-> "AnovaAnalysis", relevance |-> TRUE]>>,
      <<[name |-> "AnovaAnalysis"]>> }

PlotsChoices == { <<>>, <<[name |-> "SignificancePlot"]>> }

OutputChoices ==
    { <<>>,
      [save_interactive_html |-> FALSE, save_static_html |-> FALSE, save_pdf |-> FALSE,
       output_directory |-> "output"],
      [save_interactive_html |-> TRUE, save_static_html |-> TRUE, save_pdf |-> TRUE,
       output_directory |-> "output"],
      [save_interactive_html |-> FALSE, save_static_html |-> TRUE, save_pdf |-> FALSE,
       output_directory |-> "output"] }

ConfigChoices ==
    [analyses : AnalysesChoices, plots : PlotsChoices, output : OutputChoices,
     report : {[name |-> "report"]}]

-----------------------------------------------------------------------------
(* process_columns: src/src/main.py *)

\* all_limits.get(limit_name, {}).get(value_col)
NestedGet(al, limit_name, value_col) ==
    IF limit_name \in DOMAIN al /\ value_col \in DOMAIN al[limit_name]
    THEN Some(al[limit_name][value_col]) ELSE None

\* The limits dict built for one column.
ColumnLimits(al, value_col) ==
    [lower_limit |-> NestedGet(al, "Lower_Limit", value_col),
     upper_limit |-> NestedGet(al, "Upper_Limit", value_col),
     target_value |-> NestedGet(al, "Target", value_col)]

\* A variant of AnalysesToRun that takes the two-group tests for two or more groups.
AnalysesToRun_AtLeastTwo(num_groups) ==
    IF num_groups >= 2 THEN <<"TTestAnalysis", "MannWhitneyAnalysis">>
    ELSE IF num_groups > 2 THEN <<"AnovaAnalysis">>
    ELSE <<>>

\* The cardinality policy.
AnalysesToRun(num_groups) ==
    IF num_groups = 2 THEN <<"TTestAnalysis", "MannWhitneyAnalysis">>
    ELSE IF num_groups > 2 THEN <<"AnovaAnalysis">>
    ELSE <<>>

\* any(analysis_cfg["relevance"] for ...) raises KeyError: an entry without
\* the key is reached before an entry with relevance = True.
ApplyRelevanceRaises(analyses) ==
    \E i \in DOMAIN analyses :
        /\ "relevance" \notin DOMAIN analyses[i]
        /\ \A j \in 1..(i - 1) :
              "relevance" \in DOMAIN analyses[j] /\ ~analyses[j]["relevance"]

ApplyRelevance(analyses) ==
    \E i \in DOMAIN analyses : "relevance" \in DOMAIN analyses[i] /\ analyses[i]["relevance"]

\* The threshold used when no analysis entry sets one (0.2).
DefaultThreshold == 20

\* next((cfg["relevance_threshold"] for cfg in ... if "relevance_threshold" in cfg), 0.2)
RelevanceThreshold(analyses) ==
    LET having == {i \in DOMAIN analyses : "relevance_threshold" \in DOMAIN analyses[i]} IN
    IF having = {} THEN DefaultThreshold
    ELSE analyses[CHOOSE i \in having : \A j \in having : i <= j]["relevance_threshold"]

\* Whether the test of the current column is wrapped with the decorator.
Wrapped(analyses, limits) ==
    ApplyRelevance(analyses) /\ limits.lower_limit # None /\ limits.upper_limit # None

DefaultResult == [p_value |-> None, test |-> None, F_statistic |-> None, statistic |-> None]

\* The subplot titles, from the last result of the column.
HasStatistics(r) ==
    /\ DOMAIN r # DOMAIN DefaultResult
    /\ "p_value" \in DOMAIN r
    /\ "test" \in DOMAIN r /\ r["test"] = "ANOVA" /\ "F_statistic" \in DOMAIN r

SubplotTitles(r) ==
    IF HasStatistics(r)
    THEN << <<"Box Plot (P=, Stat=)", r["p_value"], r["F_statistic"]>>,
            <<"Cumulative Frequency (P=, Stat=)", r["p_value"], r["F_statistic"]>> >>
    ELSE << <<"Box Plot">>, <<"Cumulative Frequency">> >>

\* make_subplots(rows, cols) numbers the panels row by row; panel n has the
\* axes xaxis<n> and yaxis<n>, written without the number for n = 1.
PanelAxes(cols, row, col) ==
    LET n == (row - 1) * cols + col IN {<<"xaxis", n>>, <<"yaxis", n>>}

\* _apply_axis_style(fig, axis_style, row, col): the layout keys it updates,
\* f"{xaxis_name}{row if row > 1 else ''}" and f"{yaxis_name}{col if col > 1 else ''}".
StyledAxes(row, col) == {<<"xaxis", row>>, <<"yaxis", col>>}

\* A variant of LimitPresent that takes a limit of 0 as absent.
LimitPresent_Truthy(limit_value) == limit_value # None /\ limit_value[1] # 0

\* `if limit_value is not None`
LimitPresent(limit_value) == limit_value # None

LimitKeys == <<"lower_limit", "upper_limit", "target_value">>
LimitLabels == <<"LSL", "USL", "T">>

\* _add_all_limit_lines(fig, limits, is_horizontal, row, col): the lines added
\* to the panel, in the order lower, upper, target.
LimitLines(limits, is_horizontal, row, col) ==
    LET present == SelectSeq(<<1, 2, 3>>,
                             LAMBDA i : LimitPresent(LimitGet(limits, LimitKeys[i])))
    IN  [j \in DOMAIN present |->
            [value |-> LimitGet(limits, LimitKeys[present[j]])[1],
             label |-> LimitLabels[present[j]],
             horizontal |-> is_horizontal,
             row |-> row, col |-> col]]

\* The figure stored for a column: a canvas of one row and two panels, the
\* box plot drawn into panel (1,1) and the cumulative-frequency plot into
\* panel (1,2), each with its limit lines and its axis style.
ColumnFigure(value_col, r, limits) ==
    [title |-> <<"Plots for", value_col>>,
     subplot_titles |-> SubplotTitles(r),
     lines |-> LimitLines(limits, TRUE, 1, 1) \o LimitLines(limits, FALSE, 1, 2),
     axes |-> PanelAxes(2, 1, 1) \cup PanelAxes(2, 1, 2),
     styled_axes |-> StyledAxes(1, 1) \cup StyledAxes(1, 2)]

CurrentColumn == ValueCols(df)[col_idx]
CurrentAnalyses == AnalysesToRun(NUnique(df))

\* Start of one iteration of `for value_col in value_cols`, up to the inner loop.
BeginColumn ==
    /\ pc = "column"
    /\ col_idx <= Len(ValueCols(df))
    /\ IF ApplyRelevanceRaises(config.analyses)
       THEN /\ pc' = "raised"
            /\ exception' = "KeyError"
            /\ UNCHANGED <<an_idx, result>>
       ELSE /\ pc' = "analyses"
            /\ an_idx' = 1
            /\ result' = DefaultResult
            /\ UNCHANGED exception
    /\ UNCHANGED <<df, all_limits, config, col_idx, results, plots, report_formats,
                   generators, output_dir, files>>
    /\ UNCHANGED <<pdf_vars, wrapper_vars, test_vars>>

\* One iteration of `for analysis_cls in analyses_to_run`.
RunAnalysis ==
    /\ pc = "analyses"
    /\ an_idx <= Len(CurrentAnalyses)
    /\ LET cls == CurrentAnalyses[an_idx]
           limits == ColumnLimits(all_limits, CurrentColumn)
           threshold == RelevanceThreshold(config.analyses)
           wrapped == Wrapped(config.analyses, limits)
       IN  \E sc \in ScipyOutcomes(TestSamples(cls, df, CurrentColumn)) :
             LET r0 == Analyze(cls, df, CurrentColumn, sc) IN
             IF wrapped /\ WrapperRaises(r0, limits, threshold)
             THEN /\ pc' = "raised"
                  /\ exception' = "ValueError"
                  /\ UNCHANGED <<an_idx, result, results>>
             ELSE LET r1 == IF wrapped THEN Wrapper(r0, limits, threshold) ELSE r0
                      r2 == SetItem(r1, "column", CurrentColumn)
                  IN  /\ result' = r2
                      /\ results' = Append(results, r2)
                      /\ an_idx' = an_idx + 1
                      /\ UNCHANGED <<pc, exception>>
    /\ UNCHANGED <<df, all_limits, config, col_idx, plots, report_formats,
                   generators, output_dir, files>>
    /\ UNCHANGED <<pdf_vars, wrapper_vars, test_vars>>

\* A variant of InnerLoopDone under which the plots do not wait for the tests.
InnerLoopDone_Early(i, analyses) == TRUE

\* `for analysis_cls in analyses_to_run` is exhausted: the statements after
\* the inner loop run only then.
InnerLoopDone(i, analyses) == i > Len(analyses)

\* The rest of the iteration: the column's figure is drawn and stored.
MakePlots ==
    /\ pc = "analyses"
    /\ InnerLoopDone(an_idx, CurrentAnalyses)
    /\ plots' = DictSet(plots, CurrentColumn,
                        ColumnFigure(CurrentColumn, result,
                                     ColumnLimits(all_limits, CurrentColumn)))
    /\ col_idx' = col_idx + 1
    /\ pc' = "column"
    /\ UNCHANGED <<df, all_limits, config, an_idx, result, results, report_formats,
                   generators, output_dir, files, exception>>
    /\ UNCHANGED <<pdf_vars, wrapper_vars, test_vars>>

-----------------------------------------------------------------------------
(* run_analysis and generate_reports: src/src/main.py *)

\* any(plot_cfg["name"] == "SignificancePlot" for plot_cfg in config["plots"])
WantsSignificancePlot(cfg) ==
    \E i \in DOMAIN cfg.plots : cfg.plots[i]["name"] = "SignificancePlot"

\* SignificancePlot.plot reads result['column'] and result['p_value'] of every
\* result and raises KeyError when one lacks them.
SignificancePlotRaises(rs) ==
    \E i \in DOMAIN rs : "column" \notin DOMAIN rs[i] \/ "p_value" \notin DOMAIN rs[i]

\* The significance-summary figure: one bar per result and the alpha line.
SignificanceFigure(rs) ==
    [title |-> <<"Significance Plot">>,
     bars |-> [i \in DOMAIN rs |-> <<rs[i]["column"], rs[i]["p_value"]>>],
     hlines |-> <<Alpha>>]

\* process_columns returns; the significance plot is added when configured.
SignificancePlotStep ==
    /\ pc = "column"
    /\ col_idx > Len(ValueCols(df))
    /\ IF WantsSignificancePlot(config)
       THEN IF SignificancePlotRaises(results)
            THEN /\ pc' = "raised"
                 /\ exception' = "KeyError"
                 /\ UNCHANGED plots
            ELSE /\ plots' = DictSet(plots, "Significance Plot", SignificanceFigure(results))
                 /\ pc' = "generate_reports"
                 /\ UNCHANGED exception
       ELSE /\ pc' = "generate_reports"
            /\ UNCHANGED <<plots, exception>>
    /\ UNCHANGED <<df, all_limits, config, col_idx, an_idx, result, results,
                   report_formats, generators, output_dir, files>>
    /\ UNCHANGED <<pdf_vars, wrapper_vars, test_vars>>

\* output_config.get(flag), taken as a truth value
FlagSet(output, flag) == flag \in DOMAIN output /\ output[flag]

AnyFormat(output) ==
    \/ FlagSet(output, "save_interactive_html")
    \/ FlagSet(output, "save_static_html")
    \/ FlagSet(output, "save_pdf")

\* generate_report's list of formats, in the order it builds it.
ReportFormats(output) ==
    (IF output["save_interactive_html"] THEN <<"interactive_html">> ELSE <<>>)
    \o (IF output["save_static_html"] THEN <<"static_html">> ELSE <<>>)
    \o (IF output["save_pdf"] THEN <<"pdf">> ELSE <<>>)

\* A variant of FormatsToGenerate that generates every format.
FormatsToGenerate_All(output) == <<"interactive_html", "static_html", "pdf">>

\* The formats generate_report is run for: none when generate_reports finds
\* no flag set.
FormatsToGenerate(output) == IF AnyFormat(output) THEN ReportFormats(output) ELSE <<>>

\* generate_reports, and generate_report up to its loop over the formats.
GenerateReports ==
    /\ pc = "generate_reports"
    /\ report_formats' = FormatsToGenerate(config.output)
    /\ pc' = IF FormatsToGenerate(config.output) = <<>> THEN "done" ELSE "formats"
    /\ UNCHANGED <<df, all_limits, config, col_idx, an_idx, result, results, plots,
                   generators, output_dir, files, exception>>
    /\ UNCHANGED <<pdf_vars, wrapper_vars, test_vars>>

KnownFormats == {"interactive_html", "static_html", "pdf"}

\* A variant of FactoryRaises that accepts every format string.
FactoryRaises_Never(format) == FALSE

\* report_generator_factory raises ValueError for an unknown format.
FactoryRaises(format) == format \notin KnownFormats

\* A variant of FileName that gives every file the interactive report's name.
FileName_Same(prefix, format) == <<prefix, ".html">>

\* The file a generator writes.
FileName(prefix, format) ==
    CASE format = "interactive_html" -> <<prefix, ".html">>
      [] format = "static_html" -> <<prefix, "_static.html">>
      [] format = "pdf" -> <<prefix, ".pdf">>

\* The overview table formats result.get('p_value', 'N/A') with :.4f, which
\* raises ValueError for a result without p_value.
OverviewTableRaises(rs) == \E i \in DOMAIN rs : "p_value" \notin DOMAIN rs[i]

\* report_generator_factory(format, plots, results, config): the generator's
\* constructor creates the output directory (mkdir can fail with OSError) and
\* ranks the plots.
BuildGenerator ==
    /\ pc = "formats"
    /\ report_formats # <<>>
    /\ IF FactoryRaises(Head(report_formats))
       THEN /\ pc' = "raised"
            /\ exception' = "ValueError"
            /\ UNCHANGED <<generators, output_dir>>
       ELSE \/ /\ output_dir' = TRUE
               /\ generators' = Append(generators,
                                   [format |-> Head(report_formats),
                                    plots |-> SortPlotsBySignificance(plots, results)])
               /\ pc' = "generate"
               /\ UNCHANGED exception
            \/ /\ pc' = "raised"
               /\ exception' = "OSError"
               /\ UNCHANGED <<generators, output_dir>>
    /\ UNCHANGED <<df, all_limits, config, col_idx, an_idx, result, results, plots,
                   report_formats, files>>
    /\ UNCHANGED <<pdf_vars, wrapper_vars, test_vars>>

\* The generator generate() is running on.
CurrentGenerator == generators[Len(generators)]

\* plot_name.replace(' ', '_').replace('(', '').replace(')', '').replace('=', '')
\*          .replace('.', '').replace(',', '')
PlotId(cs) ==
    LET kept == SelectSeq(cs, LAMBDA ch : ch \notin {"(", ")", "=", ".", ","}) IN
    [i \in DOMAIN kept |-> IF kept[i] = " " THEN "_" ELSE kept[i]]

\* result.get('column', 'N/A')
ColumnName(r) == IF "column" \in DOMAIN r THEN r["column"] ELSE "N/A"

\* The first plot, in the generator's order, whose name contains the column
\* name (0 when there is none).
FirstPlotContaining(ps, column_name) ==
    LET matching == {i \in DOMAIN ps : Contains(Chars[ps[i][1]], Chars[column_name])} IN
    IF matching = {} THEN 0 ELSE CHOOSE i \in matching : \A j \in matching : i <= j

\* The rows of the HTML overview table: the column cell is a link to the
\* anchor of the first plot whose name contains the column name, or plain text.
OverviewRows(ps, rs) ==
    [i \in DOMAIN rs |->
        LET k == FirstPlotContaining(ps, ColumnName(rs[i])) IN
        [column |-> ColumnName(rs[i]),
         link |-> IF k = 0 THEN None ELSE Some(PlotId(Chars[ps[k][1]]))]]

\* The rows of the PDF overview table: plain text cells.
PdfRows(rs) == [i \in DOMAIN rs |-> [column |-> ColumnName(rs[i]), link |-> None]]

\* A written HTML report: the overview table and one anchor per plot.
HtmlPage(ps, rs) ==
    [status |-> "complete",
     rows |-> OverviewRows(ps, rs),
     anchors |-> [i \in DOMAIN ps |-> PlotId(Chars[ps[i][1]])]]

\* A report file that was opened for writing and not finished.
PartialFile == [status |-> "partial", rows |-> <<>>, anchors |-> <<>>]

\* generate() of the two HTML generators: the file is opened for writing, then
\* the overview table and the plots are written to it.  open() and write()
\* can fail with OSError.
GenerateHtml ==
    /\ pc = "generate"
    /\ CurrentGenerator.format \in {"interactive_html", "static_html"}
    /\ LET filename == FileName(config.report.name, CurrentGenerator.format) IN
       \/ /\ OverviewTableRaises(results)
          /\ files' = (filename :> PartialFile) @@ files
          /\ pc' = "raised"
          /\ exception' = "ValueError"
          /\ UNCHANGED report_formats
       \/ /\ ~OverviewTableRaises(results)
          /\ files' = (filename :> HtmlPage(CurrentGenerator.plots, results)) @@ files
          /\ report_formats' = Tail(report_formats)
          /\ pc' = IF Tail(report_formats) = <<>> THEN "done" ELSE "formats"
          /\ UNCHANGED exception
       \/ /\ files' \in {files, (filename :> PartialFile) @@ files}
          /\ pc' = "raised"
          /\ exception' = "OSError"
          /\ UNCHANGED report_formats
    /\ UNCHANGED <<df, all_limits, config, col_idx, an_idx, result, results, plots,
                   generators, output_dir>>
    /\ UNCHANGED <<pdf_vars, wrapper_vars, test_vars>>

\* PDFReportGenerator.generate up to its loop over the plots: title page and
\* overview table.
PdfBegin ==
    /\ pc = "generate"
    /\ CurrentGenerator.format = "pdf"
    /\ IF OverviewTableRaises(results)
       THEN /\ pc' = "raised"
            /\ exception' = "ValueError"
            /\ UNCHANGED plot_idx
       ELSE /\ pc' = "pdf_plot"
            /\ plot_idx' = 1
            /\ UNCHANGED exception
    /\ UNCHANGED <<df, all_limits, config, col_idx, an_idx, result, results, plots,
                   report_formats, generators, output_dir, files, temp_files>>
    /\ UNCHANGED <<wrapper_vars, test_vars>>

\* The exceptions fig.write_image can raise (no image engine, disk error).
WriteImageExceptions == {"ValueError", "OSError"}

\* One plot of the loop: NamedTemporaryFile(delete=False) creates the image
\* file, the figure is written to it and the image is put on a new page.
\* When write_image raises, the exception leaves generate() past os.remove.
PdfRenderPlot ==
    /\ pc = "pdf_plot"
    /\ plot_idx <= Len(CurrentGenerator.plots)
    /\ temp_files' = temp_files \cup {plot_idx}
    /\ \/ /\ pc' = "pdf_remove"
          /\ UNCHANGED exception
       \/ /\ pc' = "raised"
          /\ \E e \in WriteImageExceptions : exception' = e
    /\ UNCHANGED <<df, all_limits, config, col_idx, an_idx, result, results, plots,
                   report_formats, generators, output_dir, files, plot_idx>>
    /\ UNCHANGED <<wrapper_vars, test_vars>>

\* A variant of Removed that leaves the file in place.
Removed_Kept(temps, name) == temps

\* os.remove(temp_image.name)
Removed(temps, name) == temps \ {name}

\* The end of the loop body: the temporary image is removed.
PdfRemoveTemp ==
    /\ pc = "pdf_remove"
    /\ temp_files' = Removed(temp_files, plot_idx)
    /\ plot_idx' = plot_idx + 1
    /\ pc' = "pdf_plot"
    /\ UNCHANGED <<df, all_limits, config, col_idx, an_idx, result, results, plots,
                   report_formats, generators, output_dir, files, exception>>
    /\ UNCHANGED <<wrapper_vars, test_vars>>

\* The written PDF report.
PdfDocument(ps, rs) == [status |-> "complete", rows |-> PdfRows(rs), anchors |-> <<>>]

\* After the loop: pdf.output writes the report file; opening or writing it
\* can fail with OSError.
PdfOutput ==
    /\ pc = "pdf_plot"
    /\ plot_idx > Len(CurrentGenerator.plots)
    /\ LET filename == FileName(config.report.name, "pdf") IN
       \/ /\ files' = (filename :> PdfDocument(CurrentGenerator.plots, results)) @@ files
          /\ report_formats' = Tail(report_formats)
          /\ pc' = IF Tail(report_formats) = <<>> THEN "done" ELSE "formats"
          /\ UNCHANGED exception
       \/ /\ files' \in {files, (filename :> PartialFile) @@ files}
          /\ pc' = "raised"
          /\ exception' = "OSError"
          /\ UNCHANGED report_formats
    /\ UNCHANGED <<df, all_limits, config, col_idx, an_idx, result, results, plots,
                   generators, output_dir>>
    /\ UNCHANGED <<pdf_vars, wrapper_vars, test_vars>>

-----------------------------------------------------------------------------
(* The pipeline: run_analysis on a data file and a configuration *)

WrapperIdle ==
    /\ w_limits = <<>>
    /\ w_threshold = DefaultThreshold
    /\ w_in = <<>>
    /\ w_out = <<>>
    /\ w_pc = "idle"

TestIdle ==
    /\ t_cls = "None"
    /\ t_col = "None"
    /\ t_out = <<>>
    /\ t_pc = "idle"

Init ==
    /\ df \in DataFrames
    /\ all_limits \in AllLimitsChoices
    /\ config \in ConfigChoices
    /\ pc = "column"
    /\ col_idx = 1
    /\ an_idx = 1
    /\ result = DefaultResult
    /\ results = <<>>
    /\ plots = <<>>
    /\ report_formats = <<>>
    /\ generators = <<>>
    /\ output_dir = FALSE
    /\ files = <<>>
    /\ exception = "None"
    /\ plot_idx = 1
    /\ temp_files = {}
    /\ WrapperIdle
    /\ TestIdle

Next ==
    \/ BeginColumn
    \/ RunAnalysis
    \/ MakePlots
    \/ SignificancePlotStep
    \/ GenerateReports
    \/ BuildGenerator
    \/ GenerateHtml
    \/ PdfBegin
    \/ PdfRenderPlot
    \/ PdfRemoveTemp
    \/ PdfOutput

Spec == Init /\ [][Next]_vars

-----------------------------------------------------------------------------
(* The decorator called directly on a test function, as the unit tests do *)

\* Mean values handed to the decorator: whole units up to MaxMean, and NaN.
MeanValues == {k * MeanScale : k \in 0..MaxMean} \cup {NaN}
MeanLists == SeqsUpTo(MeanValues, 2)

\* What a wrapped test function returns.
WrappedResults ==
    {[significant |-> sg, mean_values |-> mv] : sg \in BOOLEAN, mv \in MeanLists}
    \cup {[mean_values |-> mv] : mv \in MeanLists}
    \cup {[test |-> "T-Test", t_statistic |-> sc.statistic, p_value |-> sc.pvalue,
           significant |-> Significant(sc.pvalue), mean_values |-> mv] :
              sc \in ScipyOutcomes(<<>>), mv \in MeanLists}
    \cup {TTestError, MannWhitneyError}

LimitValues == {None, Some(0), Some(2 * MeanScale), Some(4 * MeanScale)}

LimitsDicts ==
    [lower_limit : LimitValues, upper_limit : LimitValues]
    \cup [lower_limit : LimitValues] \cup [upper_limit : LimitValues] \cup {<<>>}

Thresholds == {DefaultThreshold, 50, 100}

PipelineIdle ==
    /\ df = <<>>
    /\ all_limits = <<>>
    /\ config = [analyses |-> <<>>, plots |-> <<>>, output |-> <<>>,
                 report |-> [name |-> "report"]]
    /\ pc = "idle"
    /\ col_idx = 1
    /\ an_idx = 1
    /\ result = DefaultResult
    /\ results = <<>>
    /\ plots = <<>>
    /\ report_formats = <<>>
    /\ generators = <<>>
    /\ output_dir = FALSE
    /\ files = <<>>
    /\ exception = "None"
    /\ plot_idx = 1
    /\ temp_files = {}

InitWrapper ==
    /\ PipelineIdle
    /\ TestIdle
    /\ w_limits \in LimitsDicts
    /\ w_threshold \in Thresholds
    /\ w_in \in WrappedResults
    /\ w_out = <<>>
    /\ w_pc = "call"

\* decorated_analysis(df, group_col, value_col)
CallWrapper ==
    /\ w_pc = "call"
    /\ IF WrapperRaises(w_in, w_limits, w_threshold)
       THEN /\ w_pc' = "raised"
            /\ UNCHANGED w_out
       ELSE /\ w_pc' = "returned"
            /\ w_out' = Wrapper(w_in, w_limits, w_threshold)
    /\ UNCHANGED <<w_limits, w_threshold, w_in>>
    /\ UNCHANGED <<pipeline_vars, test_vars>>

NextWrapper == CallWrapper

SpecWrapper == InitWrapper /\ [][NextWrapper]_vars

-----------------------------------------------------------------------------
(* A test called directly on a DataFrame, as the unit tests do *)

AnalysisClasses == {"AnovaAnalysis", "TTestAnalysis", "MannWhitneyAnalysis"}

\* The exceptions scipy can raise out of analyze: f_oneway requires at least
\* two samples (TypeError); mannwhitneyu rejects an empty sample with
\* ValueError in the releases that do not return NaN for it.
AnalyzeExceptions(cls, d, value_col) ==
    IF cls = "AnovaAnalysis"
    THEN IF Len(Unique(d)) < 2 THEN {"TypeError"} ELSE {}
    ELSE IF cls = "MannWhitneyAnalysis"
            /\ \E i \in DOMAIN TestSamples(cls, d, value_col) :
                   TestSamples(cls, d, value_col)[i] = <<>>
    THEN {"ValueError"} ELSE {}

\* Whether analyze can return (f_oneway always raises on fewer than two samples).
AnalyzeReturns(cls, d) == ~(cls = "AnovaAnalysis" /\ Len(Unique(d)) < 2)

InitTests ==
    /\ df \in DataFrames
    /\ all_limits = <<>>
    /\ config = [analyses |-> <<>>, plots |-> <<>>, output |-> <<>>,
                 report |-> [name |-> "report"]]
    /\ pc = "idle"
    /\ col_idx = 1
    /\ an_idx = 1
    /\ result = DefaultResult
    /\ results = <<>>
    /\ plots = <<>>
    /\ report_formats = <<>>
    /\ generators = <<>>
    /\ output_dir = FALSE
    /\ files = <<>>
    /\ exception = "None"
    /\ plot_idx = 1
    /\ temp_files = {}
    /\ WrapperIdle
    /\ t_cls \in AnalysisClasses
    /\ t_col \in {DataColumns[i] : i \in DOMAIN DataColumns}
    /\ t_out = <<>>
    /\ t_pc = "call"

\* analysis_cls().analyze(df, group_col, value_col)
CallAnalyze ==
    /\ t_pc = "call"
    /\ \/ /\ AnalyzeReturns(t_cls, df)
          /\ \E sc \in ScipyOutcomes(TestSamples(t_cls, df, t_col)) :
                t_out' = Analyze(t_cls, df, t_col, sc)
          /\ t_pc' = "returned"
          /\ UNCHANGED exception
       \/ /\ \E e \in AnalyzeExceptions(t_cls, df, t_col) : exception' = e
          /\ t_pc' = "raised"
          /\ UNCHANGED t_out
    /\ UNCHANGED <<t_cls, t_col>>
    /\ UNCHANGED <<df, all_limits, config, pc, col_idx, an_idx, result, results, plots,
                   report_formats, generators, output_dir, files, plot_idx, temp_files>>
    /\ UNCHANGED wrapper_vars

NextTests == CallAnalyze

SpecTests == InitTests /\ [][NextTests]_vars

-----------------------------------------------------------------------------
(* report_generator_factory called directly on plots and results, and the   *)
(* generator it returns run, as the unit tests do                           *)

\* Largest number of results handed to the factory directly.
MaxResults == 2

\* The format strings a caller passes: the three formats, and unknown ones.
FormatStrings == KnownFormats \cup {"unknown_format", ""}

\* The names of the plots: two columns, one a prefix of the other, and the
\* significance plot.
PlotNames == {"Col", "ColB", "Significance Plot"}

\* The columns the results are about.
ResultColumns == {"Col", "ColB"}

\* The plots mappings: up to three plots under distinct names, in any order.
PlotInputs ==
    {[i \in DOMAIN ns |-> <<ns[i], ColumnFigure(ns[i], DefaultResult, ColumnLimits(<<>>, ns[i]))>>] :
        ns \in {n \in SeqsUpTo(PlotNames, Cardinality(PlotNames)) :
                    \A i \in DOMAIN n : \A j \in DOMAIN n : i # j => n[i] # n[j]}}

\* The results: numeric results of a column, and structural-error results.
ResultChoices ==
    {[test |-> "T-Test", t_statistic |-> NaN, p_value |-> p, significant |-> Significant(p),
      mean_values |-> <<MeanScale, 2 * MeanScale>>, column |-> c] :
        p \in PValues \cup {NaN}, c \in ResultColumns}
    \cup {SetItem(TTestError, "column", c) : c \in ResultColumns}

ResultInputs == SeqsUpTo(ResultChoices, MaxResults)

InitReport ==
    /\ df = <<>>
    /\ all_limits = <<>>
    /\ config = [analyses |-> <<>>, plots |-> <<>>,
                 output |-> [save_interactive_html |-> TRUE, save_static_html |-> TRUE,
                             save_pdf |-> TRUE, output_directory |-> "output"],
                 report |-> [name |-> "report"]]
    /\ pc = "formats"
    /\ col_idx = 1
    /\ an_idx = 1
    /\ result = DefaultResult
    /\ results \in ResultInputs
    /\ plots \in PlotInputs
    /\ \E format \in FormatStrings : report_formats = <<format>>
    /\ generators = <<>>
    /\ output_dir = FALSE
    /\ files = <<>>
    /\ exception = "None"
    /\ plot_idx = 1
    /\ temp_files = {}
    /\ WrapperIdle
    /\ TestIdle

NextReport ==
    \/ BuildGenerator
    \/ GenerateHtml
    \/ PdfBegin
    \/ PdfRenderPlot
    \/ PdfRemoveTemp
    \/ PdfOutput

SpecReport == InitReport /\ [][NextReport]_vars

-----------------------------------------------------------------------------
(* Properties of process_columns and of the ranking (specification Spec) *)

\* The test that produced a result, from its test field or its error text.
ProducedBy(r) ==
    IF "test" \in DOMAIN r THEN r["test"]
    ELSE IF r["error"] = "T-Test requires exactly two groups." THEN "T-Test"
    ELSE "Mann-Whitney U-Test"

\* The tests behind the results of column c, in results order.
TestsOfColumn(c) ==
    LET rs == SelectSeq(results, LAMBDA r : r["column"] = c) IN
    [i \in DOMAIN rs |-> ProducedBy(rs[i])]

\* The number of distinct (non-missing) values of the grouping column.
DistinctGroups == Cardinality({df[i]["Group"] : i \in DOMAIN df} \ {"NaN"})

\* C1: for every column process_columns has processed, the tests run for it
\* are decided by the number n of distinct grouping values alone: T-Test then
\* Mann-Whitney U (one result each) for n = 2, ANOVA alone for n > 2, and no
\* test and no result for n = 0 or 1.
C1_DispatchByGroupCount ==
    \A i \in DOMAIN plots :
        plots[i][1] \in {"Col_A", "ColB"} =>
            TestsOfColumn(plots[i][1]) =
                (IF DistinctGroups = 2 THEN <<"T-Test", "Mann-Whitney U-Test">>
                 ELSE IF DistinctGroups > 2 THEN <<"ANOVA">>
                 ELSE <<>>)

\* Both columns of a two-group data file are processed: four results.
C1_Witness ==
    /\ DistinctGroups = 2
    /\ pc = "done"
    /\ Len(plots) >= 2
    /\ Len(results) = 4

\* C2: no result in the results list carries an error field (no test is run
\* outside its own cardinality precondition).
C2_NoErrorResult == \A i \in DOMAIN results : "error" \notin DOMAIN results[i]

\* The results whose column occurs in the plot name (substring match).
MatchingResults(name, rs) ==
    {i \in DOMAIN rs :
        /\ "column" \in DOMAIN rs[i]
        /\ "p_value" \in DOMAIN rs[i]
        /\ Contains(Chars[name], Chars[rs[i]["column"]])}

\* The p-value of the (last) result the plot matches.
MatchedPValue(name, rs) == rs[SetMax(MatchingResults(name, rs))]["p_value"]

\* C3: in the order a generator emits the plots after ranking, plots that
\* match no result come after all plots that match one, the p-values of the
\* matched plots are non-decreasing, and plots with equal p-values keep their
\* insertion order.  (Only pairs of real p-values are compared.)
C3_RankedOrder ==
    \A g \in DOMAIN generators :
        results # <<>> =>
            LET ps == generators[g].plots IN
            \A i \in DOMAIN ps : \A j \in DOMAIN ps :
                (i < j /\ MatchingResults(ps[j][1], results) # {}) =>
                    /\ MatchingResults(ps[i][1], results) # {}
                    /\ LET pi == MatchedPValue(ps[i][1], results)
                           pj == MatchedPValue(ps[j][1], results)
                       IN  (~IsNaN(pi) /\ ~IsNaN(pj)) =>
                               /\ pi <= pj
                               /\ pi = pj =>
                                    DictIndex(plots, ps[i][1]) < DictIndex(plots, ps[j][1])

\* C4: the sort key of a plot whose name contains the column of some result
\* is that result's p-value, and it is +infinity only when no result's
\* column occurs in the plot name.
C4_SubstringKey ==
    \A g \in DOMAIN generators : \A i \in DOMAIN plots :
        LET name == plots[i][1]
            key == SortKey(name, PValueDict(results))
        IN  IF MatchingResults(name, results) # {}
            THEN \E m \in MatchingResults(name, results) : key = results[m]["p_value"]
            ELSE key = Inf

\* C8: with relevance enabled, every (numeric) result of a column that lacks
\* its lower or upper limit carries relevance = false and the missing-limit
\* message.
C8_MissingLimitFlagged ==
    \A i \in DOMAIN results :
        LET r == results[i]
            lower == NestedGet(all_limits, "Lower_Limit", r["column"])
            upper == NestedGet(all_limits, "Upper_Limit", r["column"])
        IN  (/\ \E a \in DOMAIN config.analyses :
                    "relevance" \in DOMAIN config.analyses[a] /\ config.analyses[a]["relevance"]
             /\ (lower = <<>> \/ upper = <<>>)
             /\ "mean_values" \in DOMAIN r)
            => /\ "relevance" \in DOMAIN r
               /\ r["relevance"] = FALSE
               /\ "message" \in DOMAIN r
               /\ r["message"] = <<"Missing lower or upper limit - cannot assess relevance.">>

\* The numeric test fields of a result.
NumericFields ==
    {"test", "F_statistic", "t_statistic", "U_statistic", "p_value", "significant",
     "mean_values"}

\* A result with the numeric test fields and no error field.
NumericShape(r) ==
    /\ {"test", "p_value", "significant", "mean_values"} \subseteq DOMAIN r
    /\ DOMAIN r \cap {"F_statistic", "t_statistic", "U_statistic"} # {}
    /\ "error" \notin DOMAIN r

\* A result with an error field and none of the numeric fields.
ErrorShape(r) == "error" \in DOMAIN r /\ DOMAIN r \cap NumericFields = {}

\* C13: every result of the results list has either the numeric test fields
\* (test, a statistic, p_value, significant, mean_values) and no error field,
\* or an error field and none of the numeric fields.
C13_ResultShapes ==
    \A i \in DOMAIN results : NumericShape(results[i]) # ErrorShape(results[i])

\* A numeric result that went through the decorator and got its column.
C13_Witness ==
    \E i \in DOMAIN results :
        /\ NumericShape(results[i])
        /\ {"relevance", "message", "column"} \subseteq DOMAIN results[i]

\* C14: in every numeric result, whichever test produced it and whatever the
\* configuration is, significant is true exactly when p_value < 0.05; a
\* p-value of exactly 0.05 (and a NaN p-value) is not significant.
C14_SignificantBelowAlpha ==
    \A i \in DOMAIN results :
        "p_value" \in DOMAIN results[i] =>
            results[i]["significant"] =
                (results[i]["p_value"] # 0 - 1 /\ results[i]["p_value"] < 50)

\* A T-Test result at exactly 0.05 and a Mann-Whitney U result below it, under
\* a configuration that sets a relevance threshold.
C14_Witness ==
    /\ \E a \in DOMAIN config.analyses : "relevance_threshold" \in DOMAIN config.analyses[a]
    /\ \E i \in DOMAIN results : \E j \in DOMAIN results :
          /\ "test" \in DOMAIN results[i] /\ results[i]["test"] = "T-Test"
          /\ results[i]["p_value"] = 50 /\ results[i]["significant"] = FALSE
          /\ "test" \in DOMAIN results[j] /\ results[j]["test"] = "Mann-Whitney U-Test"
          /\ results[j]["p_value"] = 1 /\ results[j]["significant"] = TRUE

\* The number of distinct groups among the rows that have a value for column c.
ColumnGroups(c) ==
    Cardinality({df[i]["Group"] : i \in {k \in DOMAIN df : df[k][c] # 0 - 1}} \ {"NaN"})

\* C15: the tests run for a column are chosen from the number of distinct
\* groups of that column's own rows (the rows that have a value for it),
\* independently of the other columns.
C15_PerColumnDispatch ==
    \A i \in DOMAIN plots :
        plots[i][1] \in {"Col_A", "ColB"} =>
            TestsOfColumn(plots[i][1]) =
                (IF ColumnGroups(plots[i][1]) = 2 THEN <<"T-Test", "Mann-Whitney U-Test">>
                 ELSE IF ColumnGroups(plots[i][1]) > 2 THEN <<"ANOVA">>
                 ELSE <<>>)

\* None of the three format flags of the configuration is set.
NoFormatFlag ==
    \A flag \in {"save_interactive_html", "save_static_html", "save_pdf"} :
        flag \notin DOMAIN config.output \/ config.output[flag] = FALSE

\* C17: with no format flag set, report generation performs no I/O: no
\* generator is constructed, the output directory is not created and no
\* report or temporary file is written.
C17_NoFlagNoIO ==
    NoFormatFlag =>
        /\ generators = <<>>
        /\ output_dir = FALSE
        /\ files = <<>>
        /\ temp_files = {}

\* A run that analysed two columns and ended with every flag set to false.
C17_Witness ==
    /\ NoFormatFlag
    /\ "save_pdf" \in DOMAIN config.output
    /\ pc = "done"
    /\ Len(plots) >= 2
    /\ results # <<>>
    /\ generators = <<>>

\* The flag of the configuration is true.
Enabled(flag) == flag \in DOMAIN config.output /\ config.output[flag] = TRUE

\* The enabled formats, in the order interactive HTML, static HTML, PDF.
EnabledFormats ==
    (IF Enabled("save_interactive_html") THEN <<"interactive_html">> ELSE <<>>)
    \o (IF Enabled("save_static_html") THEN <<"static_html">> ELSE <<>>)
    \o (IF Enabled("save_pdf") THEN <<"pdf">> ELSE <<>>)

\* The report files of the enabled formats.
EnabledFiles ==
    (IF Enabled("save_interactive_html") THEN {<<config.report.name, ".html">>} ELSE {})
    \cup (IF Enabled("save_static_html") THEN {<<config.report.name, "_static.html">>} ELSE {})
    \cup (IF Enabled("save_pdf") THEN {<<config.report.name, ".pdf">>} ELSE {})

\* C18: generate_report builds and runs a generator for exactly the enabled
\* formats, each once and in the order interactive HTML, static HTML, PDF,
\* and the files written are exactly <prefix>.html, <prefix>_static.html and
\* <prefix>.pdf of the enabled formats: at every point the generators built
\* are a prefix of the enabled formats and only files of enabled formats
\* exist, and when the run is done all of them are built and written.
C18_EnabledFormatsOnly ==
    /\ Len(generators) <= Len(EnabledFormats)
    /\ \A i \in DOMAIN generators : generators[i].format = EnabledFormats[i]
    /\ DOMAIN files \subseteq EnabledFiles
    /\ pc = "done" =>
          /\ Len(generators) = Len(EnabledFormats)
          /\ DOMAIN files = EnabledFiles
          /\ \A f \in DOMAIN files : files[f].status = "complete"

\* A finished run with only the static HTML report enabled.
C18_Witness ==
    /\ pc = "done"
    /\ EnabledFormats = <<"static_html">>
    /\ Len(generators) = 1
    /\ DOMAIN files = {<<"report", "_static.html">>}
    /\ plots # <<>>

\* C21: an I/O failure in a step of report generation (creating the output
\* directory, opening or writing a report file, rendering a plot image) ends
\* the run with that error, the formats after the failing one are not
\* generated, and the failed run leaves no unfinished report file behind.
C21_FailureLeavesNoPartialReport ==
    (pc = "raised" /\ exception = "OSError") =>
        /\ report_formats # <<>>
        /\ Len(generators) <= Len(EnabledFormats) - Len(report_formats) + 1
        /\ \A f \in DOMAIN files : files[f].status = "complete"

\* The number of results appended for column c.
ResultCount(c) ==
    Cardinality({i \in DOMAIN results : "column" \in DOMAIN results[i] /\ results[i]["column"] = c})

\* The number of tests the dispatch policy runs for every column of the file.
TestsPerColumn == Len(AnalysesToRun(NUnique(df)))

\* The names of the plots stored so far.
PlotKeys == {plots[i][1] : i \in DOMAIN plots}

\* The pipeline is past process_columns.
PastColumns ==
    \/ pc \in {"generate_reports", "formats", "generate", "pdf_plot", "pdf_remove", "done"}
    \/ "Significance Plot" \in PlotKeys
    \/ generators # <<>>

\* C22: the pipeline is strictly sequential.  A column that has its plot has
\* all its results; the column being tested has no plot yet and exactly the
\* results of the tests already run; a later column has neither results nor
\* plot; the significance plot and the report generators exist only when
\* every column has all its results and its plot.
C22_StrictSequence ==
    LET cols == ValueCols(df) IN
    /\ \A j \in DOMAIN cols :
         /\ j < col_idx => /\ cols[j] \in PlotKeys
                           /\ ResultCount(cols[j]) = TestsPerColumn
         /\ j = col_idx => /\ cols[j] \notin PlotKeys
                           /\ ResultCount(cols[j]) <= TestsPerColumn
                           /\ pc = "analyses" => ResultCount(cols[j]) = an_idx - 1
         /\ j > col_idx => /\ cols[j] \notin PlotKeys
                           /\ ResultCount(cols[j]) = 0
    /\ \A i, k \in DOMAIN results :
         i < k => \E j1, j2 \in DOMAIN cols :
                    /\ j1 <= j2
                    /\ results[i]["column"] = cols[j1]
                    /\ results[k]["column"] = cols[j2]
    /\ PastColumns => /\ col_idx = Len(cols) + 1
                      /\ Len(results) = Len(cols) * TestsPerColumn
                      /\ \A j \in DOMAIN cols : cols[j] \in PlotKeys

\* A run over two columns with two tests each reached the end: four results,
\* two column plots and the significance plot, all ranked by a generator.
C22_Witness ==
    /\ pc = "done"
    /\ Len(ValueCols(df)) = 2
    /\ TestsPerColumn = 2
    /\ Len(results) = 4
    /\ PlotKeys = {"Col_A", "ColB", "Significance Plot"}
    /\ generators # <<>>

\* The bars of the significance plot that stand for column c.
BarsOf(fig, c) == {i \in DOMAIN fig.bars : fig.bars[i][1] = c}

\* C24: the significance plot has exactly one bar for each column that has a
\* result, showing a p_value of that column, no bar for a column without a
\* result, and exactly one horizontal line, at 0.05.
C24_OneBarPerColumn ==
    \A k \in DOMAIN plots :
        plots[k][1] = "Significance Plot" =>
            LET fig == plots[k][2]
                cols == ValueCols(df)
            IN  /\ fig.hlines = <<Alpha>>
                /\ \A j \in DOMAIN cols :
                     /\ ResultCount(cols[j]) = 0 => BarsOf(fig, cols[j]) = {}
                     /\ ResultCount(cols[j]) > 0 => Cardinality(BarsOf(fig, cols[j])) = 1
                /\ \A i \in DOMAIN fig.bars :
                     \E r \in DOMAIN results :
                        /\ results[r]["column"] = fig.bars[i][1]
                        /\ results[r]["p_value"] = fig.bars[i][2]

\* The axes of the panels of a column's figure: panel (1,1) and panel (1,2)
\* of a canvas of one row and two panels.
BoxPanelAxes == {<<"xaxis", 1>>, <<"yaxis", 1>>}
CumulativePanelAxes == {<<"xaxis", 2>>, <<"yaxis", 2>>}

\* C25: after the box plot was rendered into panel (1,1) and the
\* cumulative-frequency plot into panel (1,2), both axes of both panels carry
\* the axis style.
C25_BothPanelsStyled ==
    \A k \in DOMAIN plots :
        plots[k][1] # "Significance Plot" =>
            /\ plots[k][2].axes = BoxPanelAxes \cup CumulativePanelAxes
            /\ plots[k][2].styled_axes = BoxPanelAxes \cup CumulativePanelAxes

\* The configuration asks for no relevance assessment: the analyses list is
\* empty, or every entry has no relevance key or has relevance = false.
OmitsRelevance ==
    \A i \in DOMAIN config.analyses :
        "relevance" \in DOMAIN config.analyses[i] => ~config.analyses[i]["relevance"]

\* C26: under a configuration that omits the relevance settings,
\* process_columns does not raise, every processed column has exactly the
\* results of the tests of the cardinality policy, and no result carries a
\* relevance or a message field.
C26_RelevanceOmitted ==
    OmitsRelevance =>
        /\ pc = "raised" => col_idx > Len(ValueCols(df))
        /\ \A j \in DOMAIN ValueCols(df) :
             j < col_idx => ResultCount(ValueCols(df)[j]) = TestsPerColumn
        /\ \A i \in DOMAIN results :
             "relevance" \notin DOMAIN results[i] /\ "message" \notin DOMAIN results[i]

\* The limits file's value for column c under the sheet column named sheet,
\* None when the file has none.
FileLimit(sheet, c) ==
    IF sheet \in DOMAIN all_limits /\ c \in DOMAIN all_limits[sheet]
    THEN Some(all_limits[sheet][c]) ELSE None

\* The label of the line drawn for each sheet column of the limits file.
SheetLabel == "Lower_Limit" :> "LSL" @@ "Upper_Limit" :> "USL" @@ "Target" :> "T"

\* The present limits of column c, as <<label, value>> pairs.
PresentLimits(c) ==
    {<<SheetLabel[sheet], FileLimit(sheet, c)[1]>> :
        sheet \in {sh \in DOMAIN SheetLabel : FileLimit(sh, c) # None}}

\* The limit lines of figure fig in panel (1, col), as <<label, value>> pairs.
PanelLines(fig, col) ==
    {<<fig.lines[i].label, fig.lines[i].value>> :
        i \in {k \in DOMAIN fig.lines : fig.lines[k].row = 1 /\ fig.lines[k].col = col}}

\* The number of limit lines of figure fig in panel (1, col).
PanelLineCount(fig, col) ==
    Cardinality({k \in DOMAIN fig.lines : fig.lines[k].row = 1 /\ fig.lines[k].col = col})

\* C27: in a column's figure the box plot (panel (1,1)) and the
\* cumulative-frequency plot (panel (1,2)) each have exactly one line for
\* every present limit of the column, a limit of value 0 included, and none
\* for an absent one; the box plot's lines are horizontal, the
\* cumulative-frequency plot's vertical.
C27_LimitLines ==
    \A k \in DOMAIN plots :
        plots[k][1] # "Significance Plot" =>
            LET fig == plots[k][2]
                present == PresentLimits(plots[k][1])
            IN  /\ PanelLines(fig, 1) = present
                /\ PanelLines(fig, 2) = present
                /\ PanelLineCount(fig, 1) = Cardinality(present)
                /\ PanelLineCount(fig, 2) = Cardinality(present)
                /\ Len(fig.lines) = 2 * Cardinality(present)
                /\ \A i \in DOMAIN fig.lines :
                     fig.lines[i].horizontal <=> fig.lines[i].col = 1

\* Column ColB has a lower limit of 0, a target and no upper limit: its figure
\* has two lines in each panel, one of them at 0.
C27_Witness ==
    /\ DOMAIN all_limits = {"Lower_Limit", "Target"}
    /\ \E k \in DOMAIN plots :
         /\ plots[k][1] = "ColB"
         /\ PanelLineCount(plots[k][2], 1) = 2
         /\ PanelLineCount(plots[k][2], 2) = 2
         /\ <<"LSL", 0>> \in PanelLines(plots[k][2], 1)
         /\ <<"LSL", 0>> \in PanelLines(plots[k][2], 2)

\* The plots process_columns and run_analysis hand to the report generators,
\* by name, in the order they were stored: the processed columns in file
\* order, then the significance plot.
StoredOrder ==
    LET cols == ValueCols(df) IN
    [i \in 1..Len(plots) |-> IF i <= Len(cols) THEN cols[i] ELSE "Significance Plot"]

\* Sequence q holds the items of sequence p, each once.
IsReordering(q, p) ==
    /\ Len(q) = Len(p)
    /\ \E f \in [DOMAIN q -> DOMAIN p] :
         /\ \A i, j \in DOMAIN q : i # j => f[i] # f[j]
         /\ \A i \in DOMAIN q : q[i] = p[f[i]]

\* C28: the ranking is a pure reordering.  Every generator holds exactly the
\* names and figures of the caller's plots, each once; the caller's mapping
\* keeps the order in which the plots were stored; and all generators of a run
\* hold the plots in the same order.
C28_PureReordering ==
    /\ \A g \in DOMAIN generators : IsReordering(generators[g].plots, plots)
    /\ \A g, h \in DOMAIN generators : generators[g].plots = generators[h].plots
    /\ generators # <<>> => [i \in DOMAIN plots |-> plots[i][1]] = StoredOrder

\* All three formats were generated from three plots that the ranking put
\* into another order than the caller's.
C28_Witness ==
    /\ pc = "done"
    /\ Len(generators) = 3
    /\ Len(plots) = 3
    /\ generators[1].plots # plots

\* The results of column c that carry a p_value, by index.
OwnResults(c) ==
    {r \in DOMAIN results :
        /\ "column" \in DOMAIN results[r] /\ results[r]["column"] = c
        /\ "p_value" \in DOMAIN results[r]}

\* C29: when a column has several results (T-Test and Mann-Whitney on
\* two-group data), the ranking key of the column's plot is the p_value of
\* the last of them in results order.
C29_LastResultKey ==
    \A g \in DOMAIN generators : \A i \in DOMAIN plots :
        LET name == plots[i][1] IN
        Cardinality(OwnResults(name)) >= 2 =>
            SortKey(name, PValueDict(results)) = results[SetMax(OwnResults(name))]["p_value"]

-----------------------------------------------------------------------------
(* Properties of the decorator (specification SpecWrapper) *)

\* The limit the caller passed under key k, None when absent.
GivenLimit(k) == IF k \in DOMAIN w_limits THEN w_limits[k] ELSE <<>>

\* The wrapper returned for a result with mean_values, both limits present.
ReturnedWithLimits ==
    /\ w_pc = "returned"
    /\ "mean_values" \in DOMAIN w_in
    /\ GivenLimit("lower_limit") # <<>>
    /\ GivenLimit("upper_limit") # <<>>

GivenRange == GivenLimit("upper_limit")[1] - GivenLimit("lower_limit")[1]

\* max(mean_values) - min(mean_values) of the wrapped result.
GivenMaxDiff == Sub(PyMax(w_in["mean_values"]), PyMin(w_in["mean_values"]))

GivenSignificant == "significant" \in DOMAIN w_in /\ w_in["significant"]

\* C5: with both limits present and a non-zero range, the wrapper sets
\* relevance = (max(mean_values) - min(mean_values) >= threshold * range);
\* equality counts as relevant.
C5_RelevanceInclusive ==
    (ReturnedWithLimits /\ GivenRange # 0) =>
        /\ w_out["relevance"] =
              (~IsNaN(GivenMaxDiff) /\ 100 * GivenMaxDiff >= w_threshold * GivenRange)
        /\ (~IsNaN(GivenMaxDiff) /\ 100 * GivenMaxDiff = w_threshold * GivenRange)
              => w_out["relevance"] = TRUE

\* The boundary case: a positive difference equal to threshold * range.
C5_Witness ==
    /\ ReturnedWithLimits
    /\ GivenRange # 0
    /\ GivenMaxDiff > 0
    /\ 100 * GivenMaxDiff = w_threshold * GivenRange
    /\ w_out["relevance"] = TRUE

\* C6: with upper_limit = lower_limit the result gets relevance = false and
\* the zero-range message, whatever significant and mean_values are.
C6_ZeroRange ==
    (ReturnedWithLimits /\ GivenLimit("upper_limit") = GivenLimit("lower_limit")) =>
        /\ w_out["relevance"] = FALSE
        /\ w_out["message"] = <<"Zero range between limits - cannot assess relevance.">>

\* A significant result with differing means and equal limits.
C6_Witness ==
    /\ ReturnedWithLimits
    /\ GivenLimit("upper_limit") = GivenLimit("lower_limit")
    /\ GivenSignificant
    /\ Len(w_in["mean_values"]) = 2
    /\ GivenMaxDiff > 0
    /\ w_out["relevance"] = FALSE

\* C7: with lower_limit or upper_limit absent the result gets relevance =
\* false and the missing-limit message, whatever significant and mean_values
\* are; the check comes before the zero-range check.
C7_MissingLimit ==
    (/\ w_pc = "returned"
     /\ "mean_values" \in DOMAIN w_in
     /\ (GivenLimit("lower_limit") = <<>> \/ GivenLimit("upper_limit") = <<>>)) =>
        /\ w_out["relevance"] = FALSE
        /\ w_out["message"] = <<"Missing lower or upper limit - cannot assess relevance.">>

\* A significant result, a lower limit of 0 and no upper limit.
C7_Witness ==
    /\ w_pc = "returned"
    /\ "mean_values" \in DOMAIN w_in
    /\ GivenSignificant
    /\ w_limits = [lower_limit |-> <<0>>]
    /\ w_out["relevance"] = FALSE

\* C9: with both limits present and a non-zero range, relevance is stored
\* and exactly one message is set: the not-significant message when
\* significant is falsy (even if relevance is true), else the "Significant
\* AND relevant" form when relevance is true, else the "Significant but NOT
\* relevant" form.
C9_MessageOrder ==
    (ReturnedWithLimits /\ GivenRange # 0) =>
        /\ "relevance" \in DOMAIN w_out
        /\ "message" \in DOMAIN w_out
        /\ IF ~GivenSignificant
           THEN w_out["message"] = <<"No statistically significant difference.">>
           ELSE IF w_out["relevance"]
           THEN w_out["message"][1] = "Significant AND relevant (Diff=, threshold=%)."
           ELSE w_out["message"][1] = "Significant but NOT relevant (Diff= < %)."

\* A relevant but not significant result.
C9_Witness ==
    /\ ReturnedWithLimits
    /\ GivenRange # 0
    /\ ~GivenSignificant
    /\ w_out["relevance"] = TRUE
    /\ w_out["message"] = <<"No statistically significant difference.">>

\* C10: the wrapper returns the wrapped test's result with every field the
\* test set unchanged, adds at most relevance and message, and adds nothing
\* when the result has no mean_values.
C10_OnlyAugments ==
    w_pc = "returned" =>
        /\ \A k \in DOMAIN w_in \ {"relevance", "message"} :
              k \in DOMAIN w_out /\ w_out[k] = w_in[k]
        /\ DOMAIN w_out \subseteq DOMAIN w_in \cup {"relevance", "message"}
        /\ "mean_values" \notin DOMAIN w_in => w_out = w_in

\* A full T-Test result that got its relevance.
C10_Witness ==
    /\ w_pc = "returned"
    /\ "test" \in DOMAIN w_in
    /\ "p_value" \in DOMAIN w_out
    /\ "relevance" \in DOMAIN w_out
    /\ "message" \in DOMAIN w_out

\* C11: the wrapper never raises: whatever the wrapped test returned (an
\* empty mean_values list and an absent significant field included) and
\* whatever the limits are, the call returns a result.
C11_NeverRaises == w_pc # "raised"

-----------------------------------------------------------------------------
(* Properties of the tests called directly (specification SpecTests) *)

\* The number of distinct groups of the DataFrame a test is called on.
CalledGroups == Cardinality({df[i]["Group"] : i \in DOMAIN df} \ {"NaN"})

\* C12: called directly, T-Test and Mann-Whitney U return, without raising,
\* a result whose only field is their error text when the number of distinct
\* groups is not 2, and a result without an error field when it is 2.
C12_ErrorContract ==
    t_cls \in {"TTestAnalysis", "MannWhitneyAnalysis"} =>
        /\ (CalledGroups # 2 => t_pc # "raised")
        /\ t_pc = "returned" =>
              IF CalledGroups # 2
              THEN t_out = [error |-> IF t_cls = "TTestAnalysis"
                                      THEN "T-Test requires exactly two groups."
                                      ELSE "Mann-Whitney U-Test requires exactly two groups."]
              ELSE "error" \notin DOMAIN t_out

-----------------------------------------------------------------------------
(* Properties of the report generators (specification SpecReport) *)

\* The format the factory was called with.
RequestedFormat == IF report_formats = <<>> THEN CurrentGenerator.format ELSE report_formats[1]

\* C16: generating a report of a known format over results that include a
\* structural-error result (an error field, no p_value) does not raise.
C16_ErrorResultReported ==
    (/\ RequestedFormat \in {"interactive_html", "static_html", "pdf"}
     /\ \E i \in DOMAIN results : "error" \in DOMAIN results[i])
        => exception = "None"

\* C19: the factory called with a format string other than interactive_html,
\* static_html or pdf raises ValueError: no generator is returned, the call
\* does not go on to another format, and no output directory or file is
\* created.
C19_UnknownFormatRaises ==
    RequestedFormat \notin {"interactive_html", "static_html", "pdf"} =>
        /\ generators = <<>>
        /\ output_dir = FALSE
        /\ files = <<>>
        /\ pc # "formats" => (pc = "raised" /\ exception = "ValueError")

\* The factory raised for "unknown_format", called with plots and results.
C19_Witness ==
    /\ report_formats = <<"unknown_format">>
    /\ pc = "raised"
    /\ exception = "ValueError"
    /\ plots # <<>>
    /\ results # <<>>

\* C20: during PDF generation at most one temporary image file exists at any
\* point (the file of the plot being added, removed before the next plot is
\* started), and none exists once the PDF is written.
C20_OneTempFile ==
    /\ Cardinality(temp_files) <= 1
    /\ pc \in {"pdf_plot", "formats", "done"} => temp_files = {}
    /\ pc = "pdf_remove" => temp_files = {plot_idx}

\* The PDF of three plots is written and no temporary file is left.
C20_Witness ==
    /\ pc = "done"
    /\ <<"report", ".pdf">> \in DOMAIN files
    /\ Len(generators[Len(generators)].plots) = Cardinality(PlotNames)
    /\ plot_idx > Cardinality(PlotNames)
    /\ temp_files = {}

\* The HTML report files written so far.
HtmlFiles == {f \in DOMAIN files : f[2] \in {".html", "_static.html"} /\ files[f].status = "complete"}

\* The anchor id the page gives to the plot named n: blanks become '_'.
AnchorOf(n) == [i \in DOMAIN Chars[n] |-> IF Chars[n][i] = " " THEN "_" ELSE Chars[n][i]]

C30_TempRemovedOnFailure == pc = "raised" => temp_files = {}

====
